---- MODULE Spec2Model ----
(***************************************************************************)
(* Model of src/src/engagement_analysis.py: compute_kpis and               *)
(* segment_analysis over a pandas DataFrame.                                *)
(*                                                                         *)
(* A DataFrame is a record [columns, rows]: the set of column names and a   *)
(* sequence of rows, each row a function from the present columns to cells. *)
(* A cell is a record [kind, s, v]: a Python str (kind "str", s the         *)
(* sequence of its characters), a number (kind "num", value v) or the       *)
(* missing marker NaN (kind "nan").  A float result is a record             *)
(* [nan, num, den] standing for num/den, or for NaN when nan is TRUE.       *)
(***************************************************************************)
EXTENDS Integers, Sequences, FiniteSets, TLC

VARIABLES df, kpis, segments

vars == <<df, kpis, segments>>

(***************************************************************************)
(* Bounds of the checked input space.                                       *)
(***************************************************************************)
\* rows of a table over any of the seven columns
MaxRows == 2
\* rows of a table over the columns compute_kpis reads
MaxKpiRows == 4

(***************************************************************************)
(* Characters and Python str methods.                                       *)
(***************************************************************************)
UpperCase == <<"A","B","C","D","E","F","G","H","I","J","K","L","M",
               "N","O","P","Q","R","S","T","U","V","W","X","Y","Z">>
LowerCase == <<"a","b","c","d","e","f","g","h","i","j","k","l","m",
               "n","o","p","q","r","s","t","u","v","w","x","y","z">>
Digits == <<"0","1","2","3","4","5","6","7","8","9">>

IndexOf(seq, c) == CHOOSE i \in 1..Len(seq) : seq[i] = c

IsIn(seq, c) == \E i \in 1..Len(seq) : seq[i] = c

IsCased(c) == IsIn(UpperCase, c) \/ IsIn(LowerCase, c)

IsSpace(c) == c \in {" ", "\t", "\n"}

ToUpper(c) == IF IsIn(LowerCase, c) THEN UpperCase[IndexOf(LowerCase, c)] ELSE c

ToLower(c) == IF IsIn(UpperCase, c) THEN LowerCase[IndexOf(UpperCase, c)] ELSE c

\* Code point of a character, for the characters the inputs use.
Ord(c) ==
    IF IsIn(UpperCase, c) THEN 64 + IndexOf(UpperCase, c)
    ELSE IF IsIn(LowerCase, c) THEN 96 + IndexOf(LowerCase, c)
    ELSE IF IsIn(Digits, c) THEN 47 + IndexOf(Digits, c)
    ELSE IF c = "_" THEN 95
    ELSE IF c = "." THEN 46
    ELSE IF c = "-" THEN 45
    ELSE IF c = " " THEN 32
    ELSE IF c = "\n" THEN 10
    ELSE 9

\* str < str: lexicographic by code point, a proper prefix first.
RECURSIVE StrLess(_, _)
StrLess(a, b) ==
    IF b = <<>> THEN FALSE
    ELSE IF a = <<>> THEN TRUE
    ELSE IF Ord(Head(a)) # Ord(Head(b)) THEN Ord(Head(a)) < Ord(Head(b))
    ELSE StrLess(Tail(a), Tail(b))

RECURSIVE LStrip(_)
LStrip(s) == IF s # <<>> /\ IsSpace(Head(s)) THEN LStrip(Tail(s)) ELSE s

RECURSIVE RStrip(_)
RStrip(s) ==
    IF s # <<>> /\ IsSpace(s[Len(s)]) THEN RStrip(SubSeq(s, 1, Len(s) - 1)) ELSE s

\* str.strip(): leading and trailing whitespace removed.
Strip(s) == RStrip(LStrip(s))

\* str.title(): a cased character is upper-cased when the character before
\* it is not cased (or there is none), lower-cased otherwise.
Title(s) ==
    [i \in 1..Len(s) |->
        IF i > 1 /\ IsCased(s[i - 1]) THEN ToLower(s[i]) ELSE ToUpper(s[i])]

(***************************************************************************)
(* Cells and floats.                                                        *)
(***************************************************************************)
StrCell(s) == [kind |-> "str", s |-> s, v |-> 0]

NumCell(n) == [kind |-> "num", s |-> <<>>, v |-> n]

NaNCell == [kind |-> "nan", s |-> <<>>, v |-> 0]

Number(n, d) == [nan |-> FALSE, num |-> n, den |-> d]

NaN == [nan |-> TRUE, num |-> 0, den |-> 1]

RECURSIVE NatToChars(_)
NatToChars(n) ==
    IF n < 10 THEN <<Digits[n + 1]>>
    ELSE NatToChars(n \div 10) \o <<Digits[(n % 10) + 1]>>

\* Series.astype(str): str(x) of every cell; NaN becomes "nan", a float its repr.
AsStr(cell) ==
    IF cell.kind = "str" THEN cell.s
    ELSE IF cell.kind = "nan" THEN <<"n", "a", "n">>
    ELSE NatToChars(cell.v) \o <<".", "0">>

\* .astype(str).str.strip().str.title() of one cell
NormalizeCategory(cell) == StrCell(Title(Strip(AsStr(cell))))

RECURSIVE ParseDigits(_, _)
ParseDigits(s, acc) ==
    IF s = <<>> THEN acc
    ELSE ParseDigits(Tail(s), 10 * acc + (IndexOf(Digits, Head(s)) - 1))

\* pd.to_numeric(..., errors="coerce") of one cell, for cells that are NaN,
\* numbers, or strings of letters and digits: a non-empty string of decimal
\* digits parses to its value, a string with a letter in it becomes NaN.
ToNumeric(cell) ==
    IF cell.kind # "str" THEN cell
    ELSE IF cell.s # <<>> /\ \A i \in 1..Len(cell.s) : IsIn(Digits, cell.s[i])
         THEN NumCell(ParseDigits(cell.s, 0))
         ELSE NaNCell

(***************************************************************************)
(* DataFrame operations.                                                    *)
(***************************************************************************)
\* df_local[col] = pd.to_numeric(df_local[col], errors="coerce") for every
\* col of cols that is present
CoerceColumns(d, cols) ==
    [d EXCEPT !.rows =
        [i \in 1..Len(d.rows) |->
            [c \in d.columns |->
                IF c \in cols THEN ToNumeric(d.rows[i][c]) ELSE d.rows[i][c]]]]

\* df_local[col] = df_local[col].astype(str).str.strip().str.title() for
\* every col of cols that is present
NormalizeColumns(d, cols) ==
    [d EXCEPT !.rows =
        [i \in 1..Len(d.rows) |->
            [c \in d.columns |->
                IF c \in cols THEN NormalizeCategory(d.rows[i][c]) ELSE d.rows[i][c]]]]

RECURSIVE SumSeq(_)
SumSeq(s) == IF s = <<>> THEN 0 ELSE Head(s) + SumSeq(Tail(s))

\* The non-missing values of a coerced column over the rows idx, in row order.
RECURSIVE ValuesOf(_, _, _)
ValuesOf(rows, col, idx) ==
    IF idx = <<>> THEN <<>>
    ELSE LET cell == rows[Head(idx)][col]
             rest == ValuesOf(rows, col, Tail(idx))
         IN  IF cell.kind = "num" THEN <<cell.v>> \o rest ELSE rest

AllRows(d) == [i \in 1..Len(d.rows) |-> i]

\* mean(skipna=True): sum over count of the non-missing values, NaN when none
MeanOf(vals) == IF vals = <<>> THEN NaN ELSE Number(SumSeq(vals), Len(vals))

\* Variant of SeriesMean: missing cells counted as zeros (the mean over all rows).
SeriesMeanFillZero(d, col) ==
    IF d.rows = <<>> THEN NaN
    ELSE Number(SumSeq(ValuesOf(d.rows, col, AllRows(d))), Len(d.rows))

\* Series.mean() of a coerced column
SeriesMean(d, col) == MeanOf(ValuesOf(d.rows, col, AllRows(d)))

RECURSIVE Pow10(_)
Pow10(n) == IF n = 0 THEN 1 ELSE 10 * Pow10(n - 1)

\* round(x, ndigits) of a non-negative float: the nearest multiple of
\* 10^-ndigits, an exact tie going to the even one.
Round(x, ndigits) ==
    LET scaled == x.num * Pow10(ndigits)
        q == scaled \div x.den
        r == scaled % x.den
    IN  Number(IF 2 * r < x.den THEN q
               ELSE IF 2 * r > x.den THEN q + 1
               ELSE IF q % 2 = 0 THEN q ELSE q + 1,
               Pow10(ndigits))

\* round(v, n) if not np.isnan(v) else np.nan
RoundOrNaN(x, ndigits) == IF ~x.nan THEN Round(x, ndigits) ELSE NaN

_safe_divide(numerator, denominator) ==
    IF denominator # 0 THEN Number(numerator, denominator) ELSE Number(0, 1)

\* Variant of FrameAfterCall: df_local = df, so the column assignments land
\* in the caller's frame.
FrameAfterCallAliased(arg, local) == local

\* df_local = df.copy(): the caller's frame after the call is the argument,
\* whatever was assigned to the columns of the copy.
FrameAfterCall(arg, local) == arg

(***************************************************************************)
(* compute_kpis                                                             *)
(***************************************************************************)
numeric_cols ==
    {"PlayTimeHours", "InGamePurchases", "SessionsPerWeek",
     "AvgSessionDurationMinutes", "PlayerLevel", "AchievementsUnlocked"}

\* Variant of KpiLocal: the EngagementLevel normalisation left out.
KpiLocalNoNormalize(d) == CoerceColumns(d, numeric_cols)

\* df_local of compute_kpis after the coercion and normalisation loops
KpiLocal(d) ==
    NormalizeColumns(CoerceColumns(d, numeric_cols), {"EngagementLevel"})

\* float(df_local[col].mean()) if col in df_local else np.nan
KpiMean(local, col) == IF col \in local.columns THEN SeriesMean(local, col) ELSE NaN

High == StrCell(<<"H", "i", "g", "h">>)

\* Variant of RetentionRate: retention_rate initialised to 0.0 instead of NaN.
RetentionRateDefaultZero(local) ==
    IF "EngagementLevel" \in local.columns
    THEN _safe_divide(Cardinality({i \in 1..Len(local.rows) :
                                      local.rows[i]["EngagementLevel"] = High}),
                      Len(local.rows))
    ELSE Number(0, 1)

RetentionRate(local) ==
    IF "EngagementLevel" \in local.columns
    THEN LET high_count ==
                 Cardinality({i \in 1..Len(local.rows) :
                                 local.rows[i]["EngagementLevel"] = High})
         IN  _safe_divide(high_count, Len(local.rows))
    ELSE NaN

MeanDigits == 2
RateDigits == 4

compute_kpis(d) ==
    LET local == KpiLocal(d)
    IN  [status |-> "returned",
         total_players |-> Len(local.rows),
         average_session_duration_minutes |->
             RoundOrNaN(KpiMean(local, "AvgSessionDurationMinutes"), MeanDigits),
         average_sessions_per_week |->
             RoundOrNaN(KpiMean(local, "SessionsPerWeek"), MeanDigits),
         average_purchases_per_user |->
             RoundOrNaN(KpiMean(local, "InGamePurchases"), MeanDigits),
         retention_rate_high_engagement |->
             RoundOrNaN(RetentionRate(local), RateDigits)]

NoKpis ==
    [status |-> "none", total_players |-> 0,
     average_session_duration_minutes |-> NaN,
     average_sessions_per_week |-> NaN,
     average_purchases_per_user |-> NaN,
     retention_rate_high_engagement |-> NaN]

(***************************************************************************)
(* segment_analysis                                                         *)
(***************************************************************************)
\* df_local of segment_analysis after the coercion and normalisation loops
SegLocal(d) ==
    NormalizeColumns(
        CoerceColumns(d, {"AvgSessionDurationMinutes", "SessionsPerWeek",
                          "InGamePurchases"}),
        {"GameGenre", "Location", "EngagementLevel"})

\* Variant of aggregations: InGamePurchases aggregated by its mean alone.
aggregationsMeanOnly ==
    << [col |-> "AvgSessionDurationMinutes", how |-> <<"mean">>, is_list |-> FALSE],
       [col |-> "SessionsPerWeek", how |-> <<"mean">>, is_list |-> FALSE],
       [col |-> "InGamePurchases", how |-> <<"mean">>, is_list |-> TRUE],
       [col |-> "PlayerID", how |-> <<"count">>, is_list |-> FALSE] >>

\* The aggregations dict, in insertion order; is_list tells a list of
\* function names from a single name.
aggregations ==
    << [col |-> "AvgSessionDurationMinutes", how |-> <<"mean">>, is_list |-> FALSE],
       [col |-> "SessionsPerWeek", how |-> <<"mean">>, is_list |-> FALSE],
       [col |-> "InGamePurchases", how |-> <<"mean", "sum">>, is_list |-> TRUE],
       [col |-> "PlayerID", how |-> <<"count">>, is_list |-> FALSE] >>

\* {k: v for k, v in aggregations.items() if k in df_local.columns}
AvailableAggs(local) ==
    LET Present(a) == a.col \in local.columns
    IN  SelectSeq(aggregations, Present)

\* The (column, function) pairs of an aggregation dict, in output order.
RECURSIVE AggPairs(_)
AggPairs(aggs) ==
    IF aggs = <<>> THEN <<>>
    ELSE [i \in 1..Len(Head(aggs).how) |->
             [col |-> Head(aggs).col, how |-> Head(aggs).how[i]]]
         \o AggPairs(Tail(aggs))

\* Column labels of DataFrameGroupBy.agg(dict): a MultiIndex of (column,
\* function) tuples as soon as one value of the dict is a list, otherwise a
\* flat Index of the column names.
AggLabels(aggs) ==
    LET pairs == AggPairs(aggs)
        multi == \E i \in 1..Len(aggs) : aggs[i].is_list
    IN  [i \in 1..Len(pairs) |->
            IF multi THEN [tuple |-> TRUE, parts |-> <<pairs[i].col, pairs[i].how>>]
            ELSE [tuple |-> FALSE, parts |-> <<pairs[i].col>>]]

\* The characters of a column name: what iterating a Python str yields.
Chars(name) ==
    CASE name = "AvgSessionDurationMinutes" ->
           <<"A","v","g","S","e","s","s","i","o","n","D","u","r","a","t","i","o","n",
             "M","i","n","u","t","e","s">>
      [] name = "SessionsPerWeek" ->
           <<"S","e","s","s","i","o","n","s","P","e","r","W","e","e","k">>
      [] name = "InGamePurchases" ->
           <<"I","n","G","a","m","e","P","u","r","c","h","a","s","e","s">>
      [] name = "PlayerID" -> <<"P","l","a","y","e","r","I","D">>

\* "_".join(parts)
RECURSIVE Join(_)
Join(parts) ==
    IF parts = <<>> THEN ""
    ELSE IF Len(parts) = 1 THEN parts[1]
    ELSE parts[1] \o "_" \o Join(Tail(parts))

\* "_".join([c for c in map(str, col_tuple) if c != ""]).strip("_"): a tuple
\* label iterates over its two strings, a plain str label over its
\* characters.  No element begins or ends with "_", so strip("_") removes
\* nothing.
Flatten(label) ==
    LET elems == IF label.tuple THEN label.parts ELSE Chars(label.parts[1])
        NonEmpty(c) == c # ""
    IN  Join(SelectSeq(elems, NonEmpty))

\* grouped.rename(columns={"PlayerID_count": "num_players"})
Rename(label) == IF label = "PlayerID_count" THEN "num_players" ELSE label

\* The distinct values of the key column in ascending order (groupby sorts
\* its keys).
GroupKeys(local, col) ==
    LET keys == {local.rows[i][col].s : i \in 1..Len(local.rows)}
    IN  [p \in 1..Cardinality(keys) |->
            CHOOSE k \in keys : Cardinality({k2 \in keys : StrLess(k2, k)}) = p - 1]

\* One aggregate of one column over the rows idx: mean and sum skip NaN,
\* a sum over nothing is 0, count counts the non-missing cells.
Aggregate(local, pair, idx) ==
    LET NotNull(i) == local.rows[i][pair.col].kind # "nan"
    IN  CASE pair.how = "mean" -> MeanOf(ValuesOf(local.rows, pair.col, idx))
          [] pair.how = "sum" -> Number(SumSeq(ValuesOf(local.rows, pair.col, idx)), 1)
          [] pair.how = "count" -> Number(Len(SelectSeq(idx, NotNull)), 1)

\* The rows of df_local.groupby(col).agg(aggs), one per key, keys ascending.
GroupedRows(local, col, aggs) ==
    LET keys == GroupKeys(local, col)
        pairs == AggPairs(aggs)
    IN  [g \in 1..Len(keys) |->
            LET InGroup(i) == local.rows[i][col].s = keys[g]
                idx == SelectSeq(AllRows(local), InGroup)
            IN  [key |-> keys[g],
                 vals |-> [j \in 1..Len(pairs) |-> Aggregate(local, pairs[j], idx)]]]

NumLess(a, b) == a.num * b.den < b.num * a.den

\* Whether row i stands before row j after sort_values(by=columns[p],
\* ascending=False): larger values first, NaN last, equal values in their
\* order before the sort.
Before(rows, p, i, j) ==
    IF p = 1
    THEN StrLess(rows[j].key, rows[i].key) \/ (rows[i].key = rows[j].key /\ i < j)
    ELSE LET a == rows[i].vals[p - 1]
             b == rows[j].vals[p - 1]
         IN  IF a.nan THEN b.nan /\ i < j
             ELSE IF b.nan THEN TRUE
             ELSE NumLess(b, a) \/ (~NumLess(a, b) /\ i < j)

\* frame.sort_values(by=by, ascending=False)
SortValues(frame, by) ==
    LET p == IndexOf(frame.columns, by)
        n == Len(frame.rows)
        Rank(i) == Cardinality({j \in 1..n : j # i /\ Before(frame.rows, p, j, i)})
    IN  [frame EXCEPT !.rows =
            [k \in 1..n |-> frame.rows[CHOOSE i \in 1..n : Rank(i) = k - 1]]]

EmptyFrame == [columns |-> <<>>, rows |-> <<>>]

\* The sort key: grouped.columns[1] if grouped.shape[1] > 1 else col, where
\* grouped is the frame before reset_index, its columns the aggregates only.
SortKey(labels, col) == IF Len(labels) > 1 THEN labels[2] ELSE col

\* group_by(col) inside segment_analysis.  agg() of an empty dict raises
\* ValueError (no objects to concatenate).
group_by(local, col) ==
    LET available_aggs == AvailableAggs(local)
        labels == [i \in 1..Len(AggLabels(available_aggs)) |->
                      Rename(Flatten(AggLabels(available_aggs)[i]))]
        frame == [columns |-> <<col>> \o labels,
                  rows |-> GroupedRows(local, col, available_aggs)]
    IN  IF col \notin local.columns THEN [raised |-> FALSE, frame |-> EmptyFrame]
        ELSE IF available_aggs = <<>> THEN [raised |-> TRUE, frame |-> EmptyFrame]
        ELSE [raised |-> FALSE, frame |-> SortValues(frame, SortKey(labels, col))]

NoSegments ==
    [status |-> "none", by_genre |-> EmptyFrame, by_location |-> EmptyFrame,
     by_engagement |-> EmptyFrame]

\* The dict display is built in order; the first group_by that raises ends
\* the call with its exception.
segment_analysis(d) ==
    LET local == SegLocal(d)
        g == group_by(local, "GameGenre")
        l == group_by(local, "Location")
        e == group_by(local, "EngagementLevel")
    IN  IF g.raised \/ l.raised \/ e.raised
        THEN [NoSegments EXCEPT !.status = "raised"]
        ELSE [status |-> "returned", by_genre |-> g.frame,
              by_location |-> l.frame, by_engagement |-> e.frame]

(***************************************************************************)
(* Input tables.                                                            *)
(***************************************************************************)
KeyCols == {"GameGenre", "Location", "EngagementLevel"}

KpiCols ==
    {"EngagementLevel", "AvgSessionDurationMinutes", "SessionsPerWeek",
     "InGamePurchases"}

AllCols == KeyCols \cup KpiCols \cup {"PlayerID"}

Row(pid, genre, loc, eng, dur, spw, pur) ==
    [PlayerID |-> pid, GameGenre |-> genre, Location |-> loc,
     EngagementLevel |-> eng, AvgSessionDurationMinutes |-> dur,
     SessionsPerWeek |-> spw, InGamePurchases |-> pur]

\* The rows the input tables are made of: category values in several
\* spellings, numeric cells as digit strings, malformed strings, numbers and
\* missing cells, and a missing PlayerID.
Row1 ==
    Row(NumCell(1), StrCell(<<"a","c","t","i","o","n">>), StrCell(<<"u","s","a">>),
        StrCell(<<"h","i","g","h">>),
        StrCell(<<"1","0">>), StrCell(<<"3">>), StrCell(<<"5">>))

Row2 ==
    Row(NumCell(2), StrCell(<<"A","c","t","i","o","n"," ">>), StrCell(<<"U","S","A">>),
        StrCell(<<"H","i","g","h">>),
        StrCell(<<"b","a","d">>), StrCell(<<"1">>), StrCell(<<"x">>))

Row3 ==
    Row(NaNCell, StrCell(<<"r","p","g">>), StrCell(<<" ","u","s","a">>),
        StrCell(<<"L","o","w">>),
        StrCell(<<"2","0">>), StrCell(<<"2">>), StrCell(<<"1","0">>))

Row4 ==
    Row(NumCell(4), NaNCell, StrCell(<<"e","u">>),
        StrCell(<<" ","L","O","W"," ">>),
        NaNCell, StrCell(<<"b","a","d">>), NaNCell)

Row5 ==
    Row(NumCell(5), StrCell(<<"r","p","g">>), StrCell(<<"e","u">>),
        NaNCell,
        NumCell(15), NumCell(3), NumCell(0))

SampleRows == {Row1, Row2, Row3, Row4, Row5}

KpiSampleRows == {Row1, Row2, Row3, Row4}

\* The DataFrame with the given columns whose rows are rowseq cut to them.
Frame(cols, rowseq) ==
    [columns |-> cols,
     rows |-> [i \in 1..Len(rowseq) |-> [c \in cols |-> rowseq[i][c]]]]

RowSeqs(pool, n) == UNION {[1..k -> pool] : k \in 0..n}

\* Tables over any subset of the seven columns, and longer tables over the
\* columns compute_kpis reads.
Tables ==
    {Frame(cols, rs) : cols \in SUBSET AllCols, rs \in RowSeqs(SampleRows, MaxRows)}
    \cup {Frame(cols, rs) : cols \in SUBSET KpiCols,
                            rs \in RowSeqs(KpiSampleRows, MaxKpiRows)}

(***************************************************************************)
(* The state machine: a caller holds a table df and calls the two functions *)
(* on it, in any order and any number of times.                             *)
(***************************************************************************)
Init ==
    /\ df \in Tables
    /\ kpis = NoKpis
    /\ segments = NoSegments

ComputeKpis ==
    /\ kpis' = compute_kpis(df)
    /\ df' = FrameAfterCall(df, KpiLocal(df))
    /\ UNCHANGED segments

SegmentAnalysis ==
    /\ segments' = segment_analysis(df)
    /\ df' = FrameAfterCall(df, SegLocal(df))
    /\ UNCHANGED kpis

Next == ComputeKpis \/ SegmentAnalysis

Spec == Init /\ [][Next]_vars

(***************************************************************************)
(* Vocabulary of the properties, stated on the caller's raw table and the   *)
(* returned values without the operators of the model above.                *)
(***************************************************************************)
Abs(x) == IF x < 0 THEN -x ELSE x

\* The sum of f[x] over x in S
RECURSIVE SetSum(_, _)
SetSum(S, f) ==
    IF S = {} THEN 0
    ELSE LET x == CHOOSE y \in S : TRUE IN f[x] + SetSum(S \ {x}, f)

DigitChars == {"0","1","2","3","4","5","6","7","8","9"}

DigitValue(c) == CHOOSE n \in 0..9 : Digits[n + 1] = c

\* A raw cell that is a number: a number, or a string of decimal digits.
Parses(cell) ==
    \/ cell.kind = "num"
    \/ /\ cell.kind = "str"
       /\ cell.s # <<>>
       /\ \A i \in 1..Len(cell.s) : cell.s[i] \in DigitChars

\* The number a parsing raw cell stands for: sum of digit * 10^position.
CellNumber(cell) ==
    IF cell.kind = "num" THEN cell.v
    ELSE LET n == Len(cell.s)
         IN  SetSum(1..n, [i \in 1..n |-> DigitValue(cell.s[i]) * Pow10(n - i)])

\* value is x = S/N rounded to the nearest multiple of 1/unit
IsRounded(value, S, N, unit) ==
    /\ ~value.nan
    /\ value.den = unit
    /\ 2 * Abs(unit * S - value.num * N) <= N

\* value is the mean KPI of column col of the raw table df
IsMeanKpi(value, col) ==
    IF col \notin df.columns THEN value.nan
    ELSE LET idx == {i \in 1..Len(df.rows) : Parses(df.rows[i][col])}
             val == [i \in idx |-> CellNumber(df.rows[i][col])]
         IN  IF idx = {} THEN value.nan
             ELSE IsRounded(value, SetSum(idx, val), Cardinality(idx), 100)

\* A raw category cell that is "High" once trimmed and title-cased: blanks,
\* then h-i-g-h in either case, then blanks.
SpellsHigh(cell) ==
    /\ cell.kind = "str"
    /\ \E a \in 0..Len(cell.s) :
          /\ Len(cell.s) >= a + 4
          /\ \A i \in 1..a : cell.s[i] = " "
          /\ cell.s[a + 1] \in {"h", "H"}
          /\ cell.s[a + 2] \in {"i", "I"}
          /\ cell.s[a + 3] \in {"g", "G"}
          /\ cell.s[a + 4] \in {"h", "H"}
          /\ \A i \in (a + 5)..Len(cell.s) : cell.s[i] = " "

\* The raw cells of a column, in row order
Column(col) == [i \in 1..Len(df.rows) |-> df.rows[i][col]]

SegFrame(key) ==
    CASE key = "GameGenre" -> segments.by_genre
      [] key = "Location" -> segments.by_location
      [] key = "EngagementLevel" -> segments.by_engagement

Has(col) == IF col \in df.columns THEN 1 ELSE 0

\* The value of row r of a segment frame under the column labelled label
ValueAt(frame, r, label) == frame.rows[r].vals[IndexOf(frame.columns, label) - 1]

C2_NeverRaises ==
    /\ kpis.status # "raised"
    /\ segments.status # "raised"

(***************************************************************************)
(* C3                                                                       *)
(***************************************************************************)
\* C3: each mean KPI is the mean of the cells of its column that parse as
\* numbers, rounded to 2 places; cells that do not parse or are missing
\* count neither in the numerator nor in the denominator; the KPI is NaN
\* when the column is absent, the table is empty or no cell parses.
C3_MeanKpis ==
    kpis.status = "returned" =>
        /\ IsMeanKpi(kpis.average_session_duration_minutes, "AvgSessionDurationMinutes")
        /\ IsMeanKpi(kpis.average_sessions_per_week, "SessionsPerWeek")
        /\ IsMeanKpi(kpis.average_purchases_per_user, "InGamePurchases")

\* "10", "bad", "20" give 15.0; the sessions column 3, 1, 2 gives 2.0
C3_Witness ==
    /\ kpis.status = "returned"
    /\ "AvgSessionDurationMinutes" \in df.columns
    /\ Column("AvgSessionDurationMinutes") =
           <<StrCell(<<"1","0">>), StrCell(<<"b","a","d">>), StrCell(<<"2","0">>)>>
    /\ kpis.average_session_duration_minutes = Number(1500, 100)

(***************************************************************************)
(* C4                                                                       *)
(***************************************************************************)
\* C4: for every table with an EngagementLevel column,
\* retention_rate_high_engagement is (rows whose value trimmed and
\* title-cased is exactly "High") / (row count) rounded to 4 places, and
\* 0.0 for a table with zero rows.
C4_RetentionRate ==
    (kpis.status = "returned" /\ "EngagementLevel" \in df.columns) =>
        LET n == Len(df.rows)
            high == Cardinality({i \in 1..n : SpellsHigh(df.rows[i]["EngagementLevel"])})
        IN  IF n = 0 THEN kpis.retention_rate_high_engagement = Number(0, 10000)
            ELSE IsRounded(kpis.retention_rate_high_engagement, high, n, 10000)

\* ["high", "High", "Low", " LOW "] gives 0.5
C4_Witness ==
    /\ kpis.status = "returned"
    /\ "EngagementLevel" \in df.columns
    /\ Column("EngagementLevel") =
           <<StrCell(<<"h","i","g","h">>), StrCell(<<"H","i","g","h">>),
             StrCell(<<"L","o","w">>), StrCell(<<" ","L","O","W"," ">>)>>
    /\ kpis.retention_rate_high_engagement = Number(5000, 10000)

WithColumn(d, key) ==
    [columns |-> d.columns \cup {key},
     rows |-> [i \in 1..Len(d.rows) |->
                  [c \in d.columns \cup {key} |->
                      IF c = key THEN StrCell(<<"x">>) ELSE d.rows[i][c]]]]

\* C6: when a grouping key's column is absent, segment_analysis returns an
\* empty segment table for it without raising, and the tables of the other
\* two keys are what they are for the table with that column present.
C6_AbsentKeyGivesEmptyTable ==
    segments.status # "none" =>
        \A key \in KeyCols \ df.columns :
            /\ segments.status = "returned"
            /\ SegFrame(key) = EmptyFrame
            /\ \A other \in KeyCols \ {key} :
                   SegFrame(other) = group_by(SegLocal(WithColumn(df, key)), other).frame

DescendingBy(frame, p) ==
    \A i, j \in 1..Len(frame.rows) :
        (i < j /\ ~frame.rows[i].vals[p].nan /\ ~frame.rows[j].vals[p].nan)
            => ~NumLess(frame.rows[i].vals[p], frame.rows[j].vals[p])

DescendingByKey(frame) ==
    \A i, j \in 1..Len(frame.rows) :
        i < j => ~StrLess(frame.rows[i].key, frame.rows[j].key)

\* C8: every segment table with at least one aggregation column has its
\* rows in descending order of its second output column, the first
\* aggregation column after the key; a table with no aggregation column is
\* in descending order of the key.
C8_SortedBySecondOutputColumn ==
    segments.status = "returned" =>
        \A key \in KeyCols \cap df.columns :
            IF Len(SegFrame(key).columns) > 1
            THEN DescendingBy(SegFrame(key), 1)
            ELSE DescendingByKey(SegFrame(key))

(***************************************************************************)
(* C9                                                                       *)
(***************************************************************************)
ExpectedLabels ==
    (IF "AvgSessionDurationMinutes" \in df.columns
        THEN {"AvgSessionDurationMinutes_mean"} ELSE {})
    \cup (IF "SessionsPerWeek" \in df.columns THEN {"SessionsPerWeek_mean"} ELSE {})
    \cup (IF "InGamePurchases" \in df.columns
           THEN {"InGamePurchases_mean", "InGamePurchases_sum"} ELSE {})
    \cup (IF "PlayerID" \in df.columns THEN {"num_players"} ELSE {})

\* C9: for every subset of the aggregated columns present, also without
\* InGamePurchases, the labels of the segment table after the key are
\* <column>_mean for each mean-only column, InGamePurchases_mean and
\* InGamePurchases_sum, and num_players for the count over PlayerID.
C9_ColumnLabels ==
    segments.status = "returned" =>
        \A key \in KeyCols \cap df.columns :
            {SegFrame(key).columns[i] : i \in 2..Len(SegFrame(key).columns)}
                = ExpectedLabels

(***************************************************************************)
(* C10                                                                      *)
(***************************************************************************)
\* C10: for every table and present grouping key the segment table has one
\* row per distinct normalised key value, each row's num_players is the
\* number of table rows of its partition, also for rows whose PlayerID is
\* missing, and num_players sums to total_players.
C10_NumPlayersIsPartitionSize ==
    segments.status = "returned" =>
        \A key \in KeyCols \cap df.columns :
            LET f == SegFrame(key)
                norm == [i \in 1..Len(df.rows) |-> Title(Strip(AsStr(df.rows[i][key])))]
                players == [r \in 1..Len(f.rows) |-> ValueAt(f, r, "num_players").num]
            IN  /\ {f.rows[r].key : r \in 1..Len(f.rows)}
                       = {norm[i] : i \in 1..Len(df.rows)}
                /\ \A r1, r2 \in 1..Len(f.rows) :
                       f.rows[r1].key = f.rows[r2].key => r1 = r2
                /\ IsIn(f.columns, "num_players")
                /\ \A r \in 1..Len(f.rows) :
                       players[r] =
                           Cardinality({i \in 1..Len(df.rows) : norm[i] = f.rows[r].key})
                /\ SetSum(1..Len(f.rows), players) = Len(df.rows)

====
